---- MODULE Spec2Model ----
(***************************************************************************)
(* A model of BST, the static-site asset builder: build.ts (the build      *)
(* orchestrator) and src/index.ts (document, path and transform helpers).  *)
(*                                                                         *)
(* A path is a record [abs, segs]: abs says whether the string starts with *)
(* '/', segs is the sequence of its '/'-separated segments.  A segment is  *)
(* a record [n, e, p]: the name n, the extension e (without the dot, ""    *)
(* when there is none) and the number p of '_' characters in front of the  *)
(* name, so that "_x.scss" is [n |-> "x", e |-> "scss", p |-> 1].  Two     *)
(* paths are the same string exactly when the records are equal.           *)
(***************************************************************************)
EXTENDS Integers, Sequences, FiniteSets, TLC

VARIABLES
  config,          \* the BSTConfig returned by getConfig
  fs,              \* the files of the file system: absolute segs -> content
  dirs,            \* the directories of the file system (absolute segs)
  htmlFiles,       \* build.ts htmlFiles
  builtFiles,      \* build.ts builtFiles, in insertion order
  pc,              \* the statement of build.ts the process is at
  docIdx,          \* the position of the for-of loop over htmlFiles
  html,            \* the Document being processed (its top-level nodes)
  rawHtml,         \* history: the Document as parsed from the file
  cssImports,      \* what is left of the loop over cssImports
  jsImports,       \* what is left of the loop over jsImports
  currentCompile,  \* build.ts currentCompile
  exitCode,        \* -1 while running, else the process's exit status
  compileLog,      \* history: every call of transpileCSS / transpileJS, with the
                   \* position in refLog of the reference it was made for
  refLog,          \* history: every reference the two inner loops visited
  loadLog,         \* history: every document getHTML was called for
  fsLog,           \* history: every mutation of the file system
  initFs,          \* history: the files before the build started
  work,            \* what is left of the loop running after the documents
  load             \* the style importer: its file system, request and result

vars == << config, fs, dirs, htmlFiles, builtFiles, pc, docIdx, html, rawHtml,
           cssImports, jsImports, currentCompile, exitCode, compileLog, refLog,
           loadLog, fsLog, initFs, work, load >>

----------------------------------------------------------------------------
(* Bounds of the model *)

\* the most link and script nodes the documents of a site hold in all
MaxNodes == 2
\* the most characters a class attribute holds
MaxClassLen == 5

----------------------------------------------------------------------------
(* Segments and paths *)

D(name) == [n |-> name, e |-> "", p |-> 0]
F(name, ext) == [n |-> name, e |-> ext, p |-> 0]
Dot == D(".")
DotDot == D("..")
Rel(segs) == [abs |-> FALSE, segs |-> segs]
Abs(segs) == [abs |-> TRUE, segs |-> segs]
NoPath == Rel(<< >>)

\* process.cwd(): the directory the build is started in
Cwd == << D("w") >>

Last(s) == s[Len(s)]
Front(s) == SubSeq(s, 1, Len(s) - 1)

RECURSIVE NormSegs(_, _, _)
NormSegs(abs, todo, acc) ==
  IF todo = << >> THEN acc
  ELSE LET s == Head(todo)
           rest == Tail(todo)
       IN  IF s = Dot THEN NormSegs(abs, rest, acc)
           ELSE IF s = DotDot
             THEN IF acc # << >> /\ Last(acc) # DotDot
                    THEN NormSegs(abs, rest, Front(acc))
                    ELSE IF abs THEN NormSegs(abs, rest, acc)
                         ELSE NormSegs(abs, rest, Append(acc, DotDot))
             ELSE NormSegs(abs, rest, Append(acc, s))

\* path.normalize: "." segments dropped, ".." segments resolved; the path "."
\* is the relative path with no segment
Normalize(p) == [abs |-> p.abs, segs |-> NormSegs(p.abs, p.segs, << >>)]

\* path.join(a, b): the two strings joined by '/', then normalized
Join(a, b) == Normalize([abs |-> a.abs, segs |-> a.segs \o b.segs])

\* path.resolve(p): the absolute segments of p, relative paths against Cwd
Resolve(p) ==
  IF p.abs THEN NormSegs(TRUE, p.segs, << >>)
  ELSE NormSegs(TRUE, Cwd \o p.segs, << >>)

RECURSIVE CommonLen(_, _)
CommonLen(a, b) ==
  IF a = << >> \/ b = << >> \/ Head(a) # Head(b) THEN 0
  ELSE 1 + CommonLen(Tail(a), Tail(b))

Ups(k) == [i \in 1..k |-> DotDot]

\* path.relative(from, to): both resolved, the common prefix dropped, one ".."
\* for each segment of from that is left
Relative(from, to) ==
  LET f == Resolve(from)
      t == Resolve(to)
      c == CommonLen(f, t)
  IN  Rel(Ups(Len(f) - c) \o SubSeq(t, c + 1, Len(t)))

\* path.dirname
Dirname(p) == [abs |-> p.abs, segs |-> IF p.segs = << >> THEN << >> ELSE Front(p.segs)]

\* path.extname: the extension of the last segment
Extname(p) == IF p.segs = << >> THEN "" ELSE Last(p.segs).e

WithExt(p, ext) ==
  [p EXCEPT !.segs = [i \in 1..Len(p.segs) |->
      IF i = Len(p.segs) THEN [p.segs[i] EXCEPT !.e = ext] ELSE p.segs[i]]]

IsPrefix(a, b) == Len(a) <= Len(b) /\ SubSeq(b, 1, Len(a)) = a

----------------------------------------------------------------------------
(* build.ts: importMapper, importDemapper and the extension substitutions *)

importMapper(base, src) == IF src.abs THEN src ELSE Join(base, src)

importDemapper(base, src) == Relative(base, src)

\* cssPath.replace(/\.(s[ac]|c)ss$/, '.css')
CssBuiltPath(cssPath) ==
  IF Extname(cssPath) \in {"scss", "sass", "css"} THEN WithExt(cssPath, "css") ELSE cssPath

\* jsPath.replace(/\.tsx?$/, '.js')
JsBuiltPath(jsPath) ==
  IF Extname(jsPath) \in {"ts", "tsx"} THEN WithExt(jsPath, "js") ELSE jsPath

----------------------------------------------------------------------------
(* Documents.  A node is [tag, rel, ref, class, kids]: ref is its href or   *)
(* src attribute, class its class attribute as a sequence of characters     *)
(* (NoClass when it has none), kids its child nodes.                        *)

NoClass == << "(none)" >>

Elem(tag, rel, ref, kids) ==
  [tag |-> tag, rel |-> rel, ref |-> ref, class |-> NoClass, kids |-> kids]

Link(href) == Elem("link", "stylesheet", href, << >>)
Script(src) == Elem("script", "", src, << >>)

\* String.prototype.split(' ')
RECURSIVE SplitAcc(_, _, _)
SplitAcc(s, cur, acc) ==
  IF s = << >> THEN Append(acc, cur)
  ELSE IF Head(s) = " " THEN SplitAcc(Tail(s), << >>, Append(acc, cur))
       ELSE SplitAcc(Tail(s), Append(cur, Head(s)), acc)

Split(s) == SplitAcc(s, << >>, << >>)

\* Array.prototype.join(' ')
RECURSIVE JoinTokens(_)
JoinTokens(tokens) ==
  IF tokens = << >> THEN << >>
  ELSE IF Len(tokens) = 1 THEN tokens[1]
       ELSE tokens[1] \o << " " >> \o JoinTokens(Tail(tokens))

RECURSIVE UniqAcc(_, _)
UniqAcc(arr, acc) ==
  IF arr = << >> THEN acc
  ELSE IF \E i \in 1..Len(acc) : acc[i] = Head(arr)
         THEN UniqAcc(Tail(arr), acc)
         ELSE UniqAcc(Tail(arr), Append(acc, Head(arr)))

\* uniq: Array.from(new Set(arr)), the distinct elements in insertion order
uniq(arr) == UniqAcc(arr, << >>)

\* the body of getHTML's loop over the nodes with a class attribute
NormalizeClass(node) ==
  IF node.class = NoClass THEN node
  ELSE [node EXCEPT !.class = JoinTokens(uniq(Split(node.class)))]

\* getHTML: the parsed document with the class attribute of every node
\* normalized (DomUtils.findAll visits a node and then its children)
getHTML(parsed) ==
  [i \in 1..Len(parsed) |->
     LET n == NormalizeClass(parsed[i])
     IN  [n EXCEPT !.kids = [j \in 1..Len(n.kids) |-> NormalizeClass(n.kids[j])]]]

RECURSIVE FlattenNodes(_)
FlattenNodes(nodes) ==
  IF nodes = << >> THEN << >>
  ELSE << Head(nodes) >> \o FlattenNodes(Head(nodes).kids) \o FlattenNodes(Tail(nodes))

IsCSSElement(node) == node.tag = "link" /\ node.rel = "stylesheet"
IsJSElement(node) == node.tag = "script" /\ node.ref # NoPath

getCSSElements(document) == SelectSeq(FlattenNodes(document), IsCSSElement)
getJSElements(document) == SelectSeq(FlattenNodes(document), IsJSElement)

getCSSImports(document) ==
  LET els == getCSSElements(document)
  IN  [i \in 1..Len(els) |-> Normalize(els[i].ref)]

getJSImports(document) ==
  LET els == getJSElements(document)
  IN  [i \in 1..Len(els) |-> Normalize(els[i].ref)]

\* the body of replaceCSSImports' loop
ReplaceHref(n, original, replaced) ==
  IF IsCSSElement(n) /\ n.ref = original THEN [n EXCEPT !.ref = replaced] ELSE n

replaceCSSImports(document, original, replaced) ==
  [i \in 1..Len(document) |->
     LET n == ReplaceHref(document[i], original, replaced)
     IN  [n EXCEPT !.kids = [j \in 1..Len(n.kids) |->
                               ReplaceHref(n.kids[j], original, replaced)]]]

\* the body of replaceJSImports' loop
ReplaceSrc(n, original, replaced) ==
  IF IsJSElement(n) /\ n.ref = original THEN [n EXCEPT !.ref = replaced] ELSE n

replaceJSImports(document, original, replaced) ==
  [i \in 1..Len(document) |->
     LET n == ReplaceSrc(document[i], original, replaced)
     IN  [n EXCEPT !.kids = [j \in 1..Len(n.kids) |->
                               ReplaceSrc(n.kids[j], original, replaced)]]]

\* DomUtils.append(elem, next): next becomes the sibling right after elem,
\* which is at position i of its parent's children
DomAppend(siblings, i, next) ==
  SubSeq(siblings, 1, i) \o << next >> \o SubSeq(siblings, i + 1, Len(siblings))

\* DomUtils.removeElement(elem), elem at position i of its parent's children
DomRemove(siblings, i) ==
  SubSeq(siblings, 1, i - 1) \o SubSeq(siblings, i + 1, Len(siblings))

Preload(element) == Elem("link", "preload", element.ref, << >>)
Noscript(element) == Elem("noscript", "", NoPath, << Link(element.ref) >>)

\* the body of convertCSSToNonBlocking's loop, on the element and what it
\* inserts next to it: the two appends and the removal touch nothing else
ConvertElement(element) ==
  LET s1 == DomAppend(<< element >>, 1, Preload(element))
      s2 == DomAppend(s1, 1, Noscript(element))
  IN  DomRemove(s2, 1)

RECURSIVE convertCSSToNonBlocking(_)
convertCSSToNonBlocking(nodes) ==
  IF nodes = << >> THEN << >>
  ELSE LET n == Head(nodes)
       IN  (IF IsCSSElement(n) THEN ConvertElement(n)
            ELSE << [n EXCEPT !.kids = convertCSSToNonBlocking(n.kids)] >>)
           \o convertCSSToNonBlocking(Tail(nodes))

----------------------------------------------------------------------------
(* File contents.  A content is [kind, from, minified, nodes]: a source    *)
(* file's text, the output of a transform, or a serialized document.       *)

SourceText(segs) ==
  [kind |-> "source", from |-> Abs(segs), minified |-> FALSE, nodes |-> << >>]

\* the text of an HTML file that parseDocument turns into the nodes
HtmlText(segs, parsed) ==
  [kind |-> "source", from |-> Abs(segs), minified |-> FALSE, nodes |-> parsed]

\* dom-serializer's render
serializeHTML(document) ==
  [kind |-> "html", from |-> NoPath, minified |-> FALSE, nodes |-> document]

\* html-minifier's minify
minifyHTML(content) == [content EXCEPT !.minified = TRUE]

----------------------------------------------------------------------------
(* The file system the build runs on *)

SourceDir == Rel(<< D("src") >>)
DestDir == Rel(<< D("dist") >>)

W(segs) == Cwd \o segs

\* the source tree, a directory next to it, and a file in the root directory
SourceFiles ==
  { W(<< D("src"), F("index", "html") >>),
    W(<< D("src"), F("about", "html") >>),
    W(<< D("src"), F("style", "scss") >>),
    W(<< D("src"), F("style", "css") >>),
    W(<< D("src"), F("app", "ts") >>),
    W(<< D("src"), F("logo", "png") >>),
    W(<< D("shared"), F("x", "scss") >>),
    << F("style", "scss") >> }

\* what an earlier build left in the destination
OldDestFiles ==
  { W(<< D("dist"), F("old", "txt") >>),
    W(<< D("dist"), F("index", "html") >>) }

Prefixes(segs) == { SubSeq(segs, 1, k) : k \in 0..Len(segs) }
DirsOf(files) == UNION { Prefixes(Front(f)) : f \in files }

RECURSIVE SetToSeq(_)
SetToSeq(S) ==
  IF S = {} THEN << >>
  ELSE LET x == CHOOSE y \in S : TRUE IN << x >> \o SetToSeq(S \ {x})

\* getFilesRecursively(dir): the files below dir, each as path.join(dir, ...),
\* in the order readdir lists them
getFilesRecursively(files, dir) ==
  LET d == Resolve(dir)
      below == SetToSeq({ f \in files : IsPrefix(d, f) /\ f # d })
  IN  [i \in 1..Len(below) |->
         [abs |-> dir.abs, segs |-> dir.segs \o SubSeq(below[i], Len(d) + 1, Len(below[i]))]]

IsHtml(p) == Extname(p) = "html"

\* getFilesMatching(pathname, '**/*.html')
getFilesMatching(files, pathname) ==
  LET all == SelectSeq(getFilesRecursively(files, pathname), IsHtml)
  IN  [i \in 1..Len(all) |-> Join(pathname, Relative(pathname, all[i]))]

\* Bun.file(pathname).exists(): pathname is a regular file
FileExists(files, pathname) == Resolve(pathname) \in files

\* mkdir(dir, { recursive: true })
Mkdir(ds, dir) == ds \cup Prefixes(Resolve(dir))

PutFile(f, segs, content) ==
  [q \in DOMAIN f \cup {segs} |-> IF q = segs THEN content ELSE f[q]]

----------------------------------------------------------------------------
(* The transforms *)

\* index.ts transpileCache: nothing ever stores into it
transpileCache == {}

\* transpileCSS(pathname, { minify }): ok is FALSE when it throws
transpileCSS(files, pathname, minify) ==
  IF pathname \in transpileCache \/ FileExists(files, pathname)
    THEN [ok |-> TRUE,
          content |-> [kind |-> "css", from |-> Abs(Resolve(pathname)),
                       minified |-> minify, nodes |-> << >>]]
    ELSE [ok |-> FALSE, content |-> SourceText(<< >>)]

\* transpileJS(pathname, { root, minify })
transpileJS(files, pathname, minify) ==
  IF FileExists(files, pathname)
    THEN [ok |-> TRUE,
          content |-> [kind |-> "js", from |-> Abs(Resolve(pathname)),
                       minified |-> minify, nodes |-> << >>]]
    ELSE [ok |-> FALSE, content |-> SourceText(<< >>)]

----------------------------------------------------------------------------
(* builtFiles: a sequence of [path, content], in insertion order *)

Keys(bf) == { bf[i].path : i \in 1..Len(bf) }
Has(bf, path) == path \in Keys(bf)
Get(bf, path) == bf[CHOOSE i \in 1..Len(bf) : bf[i].path = path].content

\* builtFiles[path] = content
Put(bf, path, content) ==
  IF Has(bf, path)
    THEN [i \in 1..Len(bf) |-> IF bf[i].path = path THEN [bf[i] EXCEPT !.content = content] ELSE bf[i]]
    ELSE Append(bf, [path |-> path, content |-> content])

\* a mutant of CacheHit: every reference is compiled
CacheNever(bf, builtPath) == FALSE

\* builtPath in builtFiles
CacheHit(bf, builtPath) == Has(bf, builtPath)

----------------------------------------------------------------------------
(* The inputs of the build *)

\* the references a document may hold, as written in its href / src
StyleRefs ==
  { Rel(<< F("style", "scss") >>),
    Rel(<< Dot, F("style", "scss") >>),
    Abs(<< F("style", "scss") >>),
    Rel(<< DotDot, D("shared"), F("x", "scss") >>),
    Rel(<< F("style", "css") >>),
    Rel(<< F("missing", "scss") >>) }

ScriptRefs == { Rel(<< F("app", "ts") >>) }

Nodes == { Link(r) : r \in StyleRefs } \cup { Script(r) : r \in ScriptRefs }

SeqsUpTo(S, n) == UNION { [1..k -> S] : k \in 0..n }

\* what parseDocument may return for an HTML file
Documents == SeqsUpTo(Nodes, MaxNodes)

HtmlSources == { f \in SourceFiles : Last(f).e = "html" }

RECURSIVE SumLen(_, _)
SumLen(site, files) ==
  IF files = {} THEN 0
  ELSE LET f == CHOOSE g \in files : TRUE
       IN  Len(site[f]) + SumLen(site, files \ {f})

\* the sites the build is run on: a document for each HTML file, no more
\* than MaxNodes nodes in all
Sites == { site \in [HtmlSources -> Documents] : SumLen(site, HtmlSources) <= MaxNodes }

\* getConfig: source and destination from bst.json, every flag either way
Configs ==
  [ source : {SourceDir}, destination : {DestDir}, clean : BOOLEAN,
    css : [minify : BOOLEAN],
    html : [minify : BOOLEAN, minifyClasses : {TRUE}, reduceBlocking : BOOLEAN],
    js : [minify : BOOLEAN] ]

NoLoad ==
  [files |-> {}, dirs |-> {}, url |-> NoPath, from |-> NoPath, state |-> "off",
   canon |-> NoPath, result |-> NoPath]

----------------------------------------------------------------------------
(* build.ts *)

\* a mutant of errorHandler: the error is reported and the build goes on to
\* write what it has
errorHandlerGoesOn == [pc |-> "clean", exitCode |-> -1]

\* errorHandler: process.exit(1)
errorHandler == [pc |-> "exited", exitCode |-> 1]

htmlPath == htmlFiles[docIdx]
basePath == Dirname(htmlPath)

AfterLoops == IF config.html.reduceBlocking THEN "convert" ELSE "serialize"

InnerPc(css, js) ==
  IF css # << >> THEN "css" ELSE IF js # << >> THEN "js" ELSE AfterLoops

AfterDoc == IF docIdx < Len(htmlFiles) THEN "loop" ELSE "clean"

Init ==
  /\ config \in Configs
  /\ \E old \in BOOLEAN, site \in Sites :
       LET files == SourceFiles \cup (IF old THEN OldDestFiles ELSE {})
       IN  /\ fs = [f \in files |-> IF f \in HtmlSources THEN HtmlText(f, site[f])
                                    ELSE SourceText(f)]
           /\ dirs = DirsOf(files)
  /\ initFs = fs
  /\ htmlFiles = getFilesMatching(SourceFiles, SourceDir)
  /\ builtFiles = << >>
  /\ pc = "loop"
  /\ docIdx = 1
  /\ html = << >>
  /\ rawHtml = << >>
  /\ cssImports = << >>
  /\ jsImports = << >>
  /\ currentCompile = NoPath
  /\ exitCode = -1
  /\ compileLog = << >>
  /\ refLog = << >>
  /\ loadLog = << >>
  /\ fsLog = << >>
  /\ work = << >>
  /\ load = NoLoad

\* lines 39-44: getHTML, getCSSImports, getJSImports
LoadDoc ==
  /\ pc = "loop"
  /\ LET parsed == fs[Resolve(htmlPath)].nodes
     IN
       LET doc == getHTML(parsed)
           css == getCSSImports(doc)
           js == getJSImports(doc)
           cssMapped == [i \in 1..Len(css) |-> importMapper(basePath, css[i])]
           jsMapped == [i \in 1..Len(js) |-> importMapper(basePath, js[i])]
       IN  /\ html' = doc
           /\ rawHtml' = parsed
           /\ cssImports' = cssMapped
           /\ jsImports' = jsMapped
           /\ pc' = InnerPc(cssMapped, jsMapped)
  /\ currentCompile' = htmlPath
  /\ loadLog' = Append(loadLog, htmlPath)
  /\ UNCHANGED << config, fs, dirs, htmlFiles, builtFiles, docIdx, exitCode,
                  compileLog, refLog, fsLog, initFs, work, load >>

\* lines 46-53: one turn of the loop over cssImports
CssStep ==
  /\ pc = "css"
  /\ LET cssPath == Head(cssImports)
         builtPath == CssBuiltPath(cssPath)
         hit == CacheHit(builtFiles, builtPath)
         r == transpileCSS(DOMAIN fs, cssPath, config.css.minify)
         next == InnerPc(Tail(cssImports), jsImports)
     IN  /\ refLog' = Append(refLog, [kind |-> "css", doc |-> docIdx, out |-> builtPath])
         /\ compileLog' =
              IF hit THEN compileLog
              ELSE Append(compileLog, [kind |-> "css", src |-> cssPath, out |-> builtPath,
                                       minify |-> config.css.minify, at |-> Len(refLog) + 1])
         /\ IF ~hit /\ ~r.ok
              THEN /\ pc' = errorHandler.pc
                   /\ exitCode' = errorHandler.exitCode
                   /\ currentCompile' = cssPath
                   /\ UNCHANGED << builtFiles, html, cssImports >>
              ELSE /\ builtFiles' = IF hit THEN builtFiles ELSE Put(builtFiles, builtPath, r.content)
                   /\ html' = replaceCSSImports(html, importDemapper(basePath, cssPath),
                                                importDemapper(basePath, builtPath))
                   /\ cssImports' = Tail(cssImports)
                   /\ pc' = next
                   /\ currentCompile' = IF next \in {"css", "js"} THEN cssPath ELSE htmlPath
                   /\ UNCHANGED exitCode
  /\ UNCHANGED << config, fs, dirs, htmlFiles, docIdx, rawHtml, jsImports,
                  loadLog, fsLog, initFs, work, load >>

\* the minify flag build.ts line 59 hands to transpileJS
JsMinifyFlag == config.css.minify

\* lines 55-62: one turn of the loop over jsImports
JsStep ==
  /\ pc = "js"
  /\ LET jsPath == Head(jsImports)
         builtPath == JsBuiltPath(jsPath)
         hit == CacheHit(builtFiles, builtPath)
         r == transpileJS(DOMAIN fs, jsPath, JsMinifyFlag)
         next == InnerPc(<< >>, Tail(jsImports))
     IN  /\ refLog' = Append(refLog, [kind |-> "js", doc |-> docIdx, out |-> builtPath])
         /\ compileLog' =
              IF hit THEN compileLog
              ELSE Append(compileLog, [kind |-> "js", src |-> jsPath, out |-> builtPath,
                                       minify |-> JsMinifyFlag, at |-> Len(refLog) + 1])
         /\ IF ~hit /\ ~r.ok
              THEN /\ pc' = errorHandler.pc
                   /\ exitCode' = errorHandler.exitCode
                   /\ currentCompile' = jsPath
                   /\ UNCHANGED << builtFiles, html, jsImports >>
              ELSE /\ builtFiles' = IF hit THEN builtFiles ELSE Put(builtFiles, builtPath, r.content)
                   /\ html' = replaceJSImports(html, importDemapper(basePath, jsPath),
                                               importDemapper(basePath, builtPath))
                   /\ jsImports' = Tail(jsImports)
                   /\ pc' = next
                   /\ currentCompile' = IF next = "js" THEN jsPath ELSE htmlPath
                   /\ UNCHANGED exitCode
  /\ UNCHANGED << config, fs, dirs, htmlFiles, docIdx, rawHtml, cssImports,
                  loadLog, fsLog, initFs, work, load >>

\* lines 65-68: config.html.reduceBlocking
ConvertDoc ==
  /\ pc = "convert"
  /\ html' = convertCSSToNonBlocking(html)
  /\ pc' = "serialize"
  /\ UNCHANGED << config, fs, dirs, htmlFiles, builtFiles, docIdx, rawHtml, cssImports,
                  jsImports, currentCompile, exitCode, compileLog, refLog, loadLog,
                  fsLog, initFs, work, load >>

\* line 70
SerializeDoc ==
  /\ pc = "serialize"
  /\ builtFiles' = Put(builtFiles, htmlPath, serializeHTML(html))
  /\ IF config.html.minify
       THEN pc' = "minify" /\ UNCHANGED docIdx
       ELSE pc' = AfterDoc /\ docIdx' = docIdx + 1
  /\ UNCHANGED << config, fs, dirs, htmlFiles, html, rawHtml, cssImports, jsImports,
                  currentCompile, exitCode, compileLog, refLog, loadLog, fsLog,
                  initFs, work, load >>

\* lines 71-91
MinifyDoc ==
  /\ pc = "minify"
  /\ builtFiles' = Put(builtFiles, htmlPath, minifyHTML(Get(builtFiles, htmlPath)))
  /\ pc' = AfterDoc
  /\ docIdx' = docIdx + 1
  /\ UNCHANGED << config, fs, dirs, htmlFiles, html, rawHtml, cssImports, jsImports,
                  currentCompile, exitCode, compileLog, refLog, loadLog, fsLog,
                  initFs, work, load >>

\* an entry of fsLog: the operation, the absolute path it acts on and, for
\* the write of a built file, the key of builtFiles it writes
FsOp(op, path, key) == [op |-> op, path |-> Resolve(path), key |-> key]

\* exists(pathname)
PathExists(files, ds, pathname) == Resolve(pathname) \in files \cup ds

\* a mutant of DestFilesToClean: the listing misses the files
DestFilesMissed(files) == << >>

\* line 96: getFilesRecursively(config.destination)
DestFilesToClean(files) == getFilesRecursively(files, config.destination)

\* lines 94-103: the clean step, with its loop over the destination's files
CleanDest ==
  /\ pc = "clean"
  /\ IF config.clean
       THEN IF PathExists(DOMAIN fs, dirs, config.destination)
              THEN LET listed == DestFilesToClean(DOMAIN fs)
                       gone == { Resolve(listed[i]) : i \in 1..Len(listed) }
                   IN  /\ fs' = [f \in DOMAIN fs \ gone |-> fs[f]]
                       /\ fsLog' = fsLog \o [i \in 1..Len(listed) |->
                                               FsOp("unlink", listed[i], NoPath)]
                       /\ UNCHANGED dirs
              ELSE /\ dirs' = Mkdir(dirs, config.destination)
                   /\ fsLog' = Append(fsLog, FsOp("mkdir", config.destination, NoPath))
                   /\ UNCHANGED fs
       ELSE UNCHANGED << fs, dirs, fsLog >>
  /\ pc' = IF builtFiles # << >> THEN "write" ELSE "copy"
  /\ work' = builtFiles
  /\ UNCHANGED << config, htmlFiles, builtFiles, docIdx, html, rawHtml, cssImports,
                  jsImports, currentCompile, exitCode, compileLog, refLog, loadLog,
                  initFs, load >>

\* line 107: where a built file is written
WriteDestination(builtPath) ==
  Join(config.destination, Relative(config.source, builtPath))

\* lines 106-110: one turn of the loop over Object.entries(builtFiles)
WriteFile ==
  /\ pc = "write"
  /\ LET entry == Head(work)
         destination == WriteDestination(entry.path)
     IN  /\ dirs' = Mkdir(dirs, Dirname(destination))
         /\ fs' = PutFile(fs, Resolve(destination), entry.content)
         /\ fsLog' = fsLog \o << FsOp("mkdir", Dirname(destination), NoPath),
                                 FsOp("write", destination, entry.path) >>
  /\ work' = Tail(work)
  /\ pc' = IF Tail(work) # << >> THEN "write" ELSE "copy"
  /\ UNCHANGED << config, htmlFiles, builtFiles, docIdx, html, rawHtml, cssImports,
                  jsImports, currentCompile, exitCode, compileLog, refLog, loadLog,
                  initFs, load >>

\* line 113: the files the last loop copies
IsPassThrough(file) == Extname(file) \notin {"html", "scss", "sass", "ts", "tsx"}

\* lines 114-116: the body of the last loop, run for each file of the list
RECURSIVE CopyAll(_, _)
CopyAll(st, list) ==
  IF list = << >> THEN st
  ELSE LET file == Head(list)
           destination == Join(config.destination, Relative(config.source, file))
       IN  CopyAll([files |-> PutFile(st.files, Resolve(destination), st.files[Resolve(file)]),
                    dirs |-> Mkdir(st.dirs, Dirname(destination)),
                    log |-> st.log \o << FsOp("mkdir", Dirname(destination), NoPath),
                                         FsOp("copy", destination, NoPath) >>],
                   Tail(list))

\* lines 112-118: the loop over getFilesRecursively(config.source), then
\* the end of the program
CopyFiles ==
  /\ pc = "copy"
  /\ LET list == SelectSeq(getFilesRecursively(DOMAIN fs, config.source), IsPassThrough)
         st == CopyAll([files |-> fs, dirs |-> dirs, log |-> fsLog], list)
     IN  /\ fs' = st.files
         /\ dirs' = st.dirs
         /\ fsLog' = st.log
  /\ pc' = "done"
  /\ exitCode' = 0
  /\ UNCHANGED << config, htmlFiles, builtFiles, docIdx, html, rawHtml, cssImports,
                  jsImports, currentCompile, compileLog, refLog, loadLog, initFs,
                  work, load >>

Next ==
  \/ LoadDoc
  \/ CssStep
  \/ JsStep
  \/ ConvertDoc
  \/ SerializeDoc
  \/ MinifyDoc
  \/ CleanDest
  \/ WriteFile
  \/ CopyFiles

Spec == Init /\ [][Next]_vars

----------------------------------------------------------------------------
(* Properties of the build *)

Range(s) == { s[i] : i \in 1..Len(s) }

\* a transform was called and threw: nothing was stored for its output path
Failed == \E i \in 1..Len(compileLog) : ~Has(builtFiles, compileLog[i].out)

\* C1: over one build no output path is handed to a transform twice, and a
\* transform runs only for the first reference to its output path: every
\* later reference to that path, from the same document or another one,
\* finds the key in builtFiles and compiles nothing.
C1_CompiledAtMostOnce ==
  /\ \A i, j \in 1..Len(compileLog) :
       compileLog[i].out = compileLog[j].out => i = j
  /\ \A i \in 1..Len(compileLog) :
       /\ compileLog[i].at \in 1..Len(refLog)
       /\ refLog[compileLog[i].at].out = compileLog[i].out
       /\ \A k \in 1..(compileLog[i].at - 1) : refLog[k].out # compileLog[i].out

\* C1's case: the build has finished and two references had the same
\* output path
C1_Witness ==
  /\ pc = "done"
  /\ \E i, j \in 1..Len(refLog) : i < j /\ refLog[i].out = refLog[j].out

\* C2 as stated: once a key is in builtFiles, no later step changes the
\* content stored under it.
C2_NeverRewritten ==
  [][\A path \in Keys(builtFiles) :
       Has(builtFiles', path) /\ Get(builtFiles', path) = Get(builtFiles, path)]_vars

\* C2, amended: a key of builtFiles stays a key, no asset compile writes to
\* a key that exists, and the only step that changes the content under an
\* existing key is the serialization or the minification of the document
\* whose path is that key.
C2_OnlyOwnDocumentRewritten ==
  [][\A path \in Keys(builtFiles) :
       /\ Has(builtFiles', path)
       /\ Get(builtFiles', path) # Get(builtFiles, path)
            => pc \in {"serialize", "minify"} /\ path = htmlPath]_vars

\* C2's case: a reference found its output path in builtFiles, and a
\* document was serialized and then minified
C2_Witness ==
  /\ \E i, j \in 1..Len(refLog) : i < j /\ refLog[i].out = refLog[j].out
  /\ \E i \in 1..Len(htmlFiles) :
       Has(builtFiles, htmlFiles[i]) /\ Get(builtFiles, htmlFiles[i]).minified

\* the documents before the one being processed, and those after it
DocsBefore == { htmlFiles[j] : j \in 1..(docIdx - 1) }
DocsAfter == { htmlFiles[j] : j \in (docIdx + 1)..Len(htmlFiles) }

BuiltCssRef(raw) ==
  importDemapper(basePath, CssBuiltPath(importMapper(basePath, Normalize(raw))))
BuiltJsRef(raw) ==
  importDemapper(basePath, JsBuiltPath(importMapper(basePath, Normalize(raw))))

\* the nodes that carry a stylesheet's href: the links, and the preload
\* links the non-blocking conversion puts in their place
CarriesCss(node) == node.tag = "link" /\ node.rel \in {"stylesheet", "preload"}

RefSet(nodes) == { nodes[i].ref : i \in 1..Len(nodes) }
CssRefsWritten == RefSet(SelectSeq(FlattenNodes(rawHtml), IsCSSElement))
JsRefsWritten == RefSet(SelectSeq(FlattenNodes(rawHtml), IsJSElement))
CssRefsNow == RefSet(SelectSeq(FlattenNodes(html), CarriesCss))
JsRefsNow == RefSet(SelectSeq(FlattenNodes(html), IsJSElement))

\* C4 as stated: when a document is serialized, every stylesheet and script
\* reference extracted from it, however it was written, holds the
\* document-relative path of its built output.
C4_ReferencesRewritten ==
  pc = "serialize" =>
    /\ CssRefsNow = { BuiltCssRef(r) : r \in CssRefsWritten }
    /\ JsRefsNow = { BuiltJsRef(r) : r \in JsRefsWritten }

\* what C5 says the conversion makes of a list of sibling nodes: each
\* stylesheet link gives way to a preload link followed by a noscript
RECURSIVE PreloadThenNoscript(_)
PreloadThenNoscript(nodes) ==
  IF nodes = << >> THEN << >>
  ELSE (IF IsCSSElement(Head(nodes))
          THEN << Preload(Head(nodes)), Noscript(Head(nodes)) >>
          ELSE << Head(nodes) >>)
       \o PreloadThenNoscript(Tail(nodes))

\* C5 as stated: convertCSSToNonBlocking puts, where each stylesheet link
\* was, a rel=preload link and then a noscript wrapping a rel=stylesheet
\* link, both with the link's href, and the link itself is gone.
C5_PreloadThenNoscript ==
  [][pc = "convert" /\ pc' = "serialize" => html' = PreloadThenNoscript(html)]_vars

Writes == { i \in 1..Len(fsLog) : fsLog[i].op = "write" }

\* C8 as stated: every entry of builtFiles is written to the destination
\* joined with the entry's path relative to the source, and every file
\* written lies inside the destination directory.
C8_WritesInsideDestination ==
  \A i \in Writes :
    /\ fsLog[i].path =
         Resolve(Join(config.destination, Relative(config.source, fsLog[i].key)))
    /\ IsPrefix(Resolve(config.destination), fsLog[i].path)
    /\ fsLog[i].path # Resolve(config.destination)

\* the files the destination held before the build
OldDest ==
  { f \in DOMAIN initFs : IsPrefix(Resolve(config.destination), f) }

\* C9: the file system is not touched before the last document has gone
\* through its pipeline; then builtFiles is flushed once, each entry
\* written once and nothing else written; and with clean set, every file
\* the destination held is deleted before the first built file is written.
C9_FlushedOnceAtTheEnd ==
  /\ fs # initFs \/ fsLog # << >> \/ dirs # DirsOf(DOMAIN initFs)
       => /\ pc \in {"write", "copy", "done"}
          /\ docIdx = Len(htmlFiles) + 1
          /\ Range(htmlFiles) \subseteq Keys(builtFiles)
  /\ \A i, j \in Writes : fsLog[i].key = fsLog[j].key => i = j
  /\ \A i \in Writes :
       /\ Has(builtFiles, fsLog[i].key)
       /\ \A j \in 1..Len(fsLog) : fsLog[j].op = "copy" => i < j
  /\ pc \in {"copy", "done"} => Keys(builtFiles) = { fsLog[i].key : i \in Writes }
  /\ config.clean =>
       \A i \in Writes : \A f \in OldDest :
         \E j \in 1..(i - 1) : fsLog[j].op = "unlink" /\ fsLog[j].path = f

\* C9's case: a build with clean set has finished, the destination held
\* files before it, and more than one entry was written
C9_Witness ==
  /\ pc = "done"
  /\ config.clean
  /\ OldDest # {}
  /\ Cardinality(Writes) > 2

\* C10 as stated: the script transform is called with config.js.minify.
C10_ScriptMinifyIsJsMinify ==
  \A i \in 1..Len(compileLog) :
    compileLog[i].kind = "js" => compileLog[i].minify = config.js.minify

----------------------------------------------------------------------------
(* Class attributes: getHTML on documents whose node has a class attribute *)

\* the characters of the class attributes: two letters, the space and the tab
ClassChars == {"a", "b", " ", "\t"}

\* the class attribute "foo bar foo baz"
FooBarFooBaz ==
  << "f", "o", "o", " ", "b", "a", "r", " ", "f", "o", "o", " ", "b", "a", "z" >>
FooBarBaz == << "f", "o", "o", " ", "b", "a", "r", " ", "b", "a", "z" >>

ClassStrings == SeqsUpTo(ClassChars, MaxClassLen) \cup {FooBarFooBaz}

Classed(class) == [Elem("div", "", NoPath, << >>) EXCEPT !.class = class]

\* getConfig on a bst.json that names only source and destination
DefaultConfig ==
  [ source |-> SourceDir, destination |-> DestDir, clean |-> FALSE,
    css |-> [minify |-> TRUE],
    html |-> [minify |-> TRUE, minifyClasses |-> TRUE, reduceBlocking |-> TRUE],
    js |-> [minify |-> TRUE] ]

IndexHtml == W(<< D("src"), F("index", "html") >>)

InitClass ==
  /\ config = DefaultConfig
  /\ \E class \in ClassStrings :
       fs = [f \in {IndexHtml} |-> HtmlText(f, << Classed(class) >>)]
  /\ dirs = DirsOf({IndexHtml})
  /\ initFs = fs
  /\ htmlFiles = getFilesMatching({IndexHtml}, SourceDir)
  /\ builtFiles = << >>
  /\ pc = "loop"
  /\ docIdx = 1
  /\ html = << >>
  /\ rawHtml = << >>
  /\ cssImports = << >>
  /\ jsImports = << >>
  /\ currentCompile = NoPath
  /\ exitCode = -1
  /\ compileLog = << >>
  /\ refLog = << >>
  /\ loadLog = << >>
  /\ fsLog = << >>
  /\ work = << >>
  /\ load = NoLoad

\* the normalization pass of getHTML (lines 118-123) run once more, on the
\* document it has already normalized; work keeps the document it was run on
NormalizeAgain ==
  /\ pc = "convert"
  /\ work = << >>
  /\ html' = getHTML(html)
  /\ work' = << html >>
  /\ UNCHANGED << config, fs, dirs, htmlFiles, builtFiles, pc, docIdx, rawHtml,
                  cssImports, jsImports, currentCompile, exitCode, compileLog, refLog,
                  loadLog, fsLog, initFs, load >>

NextClass ==
  \/ LoadDoc
  \/ NormalizeAgain

SpecClass == InitClass /\ [][NextClass]_vars

\* the position of the first occurrence of x in s
FirstAt(s, x) == CHOOSE i \in 1..Len(s) : s[i] = x /\ \A k \in 1..(i - 1) : s[k] # x

\* the class tokens of an attribute value: its maximal runs of characters
\* that are not white space
RECURSIVE TokensAcc(_, _, _)
TokensAcc(s, cur, acc) ==
  IF s = << >> THEN (IF cur = << >> THEN acc ELSE Append(acc, cur))
  ELSE IF Head(s) \in {" ", "\t"}
         THEN TokensAcc(Tail(s), << >>, IF cur = << >> THEN acc ELSE Append(acc, cur))
         ELSE TokensAcc(Tail(s), Append(cur, Head(s)), acc)

Tokens(s) == TokensAcc(s, << >>, << >>)

\* C7 as stated: once a document is loaded, the class attribute of each node
\* holds the class tokens of the attribute as written, each once, in the
\* order of their first occurrences ("foo bar foo baz" gives "foo bar baz");
\* and running the normalization again changes nothing.
C7_DistinctTokensInOrder ==
  /\ pc # "loop" =>
       \A i \in 1..Len(html) :
         rawHtml[i].class # NoClass =>
           LET written == Tokens(rawHtml[i].class)
               kept == Tokens(html[i].class)
           IN  /\ \A a, b \in 1..Len(kept) : kept[a] = kept[b] => a = b
               /\ Range(kept) = Range(written)
               /\ \A a, b \in 1..Len(kept) :
                    a < b => FirstAt(written, kept[a]) < FirstAt(written, kept[b])
               /\ rawHtml[i].class = FooBarFooBaz => html[i].class = FooBarBaz
  /\ work # << >> => html = work[1]

----------------------------------------------------------------------------
(* The importer transpileCSS hands to the Sass compiler *)

\* the file transpileCSS is compiling
Pathname == Rel(<< D("src"), F("style", "scss") >>)

Tilde == D("~")
Underscored(seg) == [seg EXCEPT !.p = @ + 1]
IndexScss == [n |-> "index", e |-> "scss", p |-> 1]

\* the files and directories that may lie where the importer looks
StyleFiles ==
  { W(<< D("src"), F("x", "scss") >>),
    W(<< D("src"), Underscored(F("x", "scss")) >>),
    W(<< D("src"), D("x") >>),
    W(<< D("src"), Underscored(D("x")) >>),
    W(<< D("src"), D("theme") >>),
    W(<< D("src"), Underscored(D("theme")) >>),
    W(<< D("src"), D("theme"), IndexScss >>),
    W(<< D("node_modules"), D("pkg"), F("y", "scss") >>),
    W(<< D("node_modules"), D("pkg"), Underscored(F("y", "scss")) >>) }

ThemeDir == W(<< D("src"), D("theme") >>)

\* a file system: no path is both a file and a directory
StyleFileSystems ==
  { fsys \in [files : SUBSET StyleFiles, dirs : {{}, {ThemeDir}}] :
      fsys.files \cap (DirsOf(fsys.files) \cup fsys.dirs) = {} }

\* the urls of the @use / @import rules
ImportUrls ==
  { Rel(<< D("x") >>),
    Rel(<< F("x", "scss") >>),
    Rel(<< D("theme") >>),
    Rel(<< Tilde, D("pkg"), F("y", "scss") >>),
    Rel(<< D("lib"), Tilde, D("pkg"), F("y", "scss") >>) }

\* the position of the first "/~/" of url, 0 when there is none
TildeAt(url) ==
  LET at == { i \in 1..(Len(url.segs) - 1) : url.segs[i] = Tilde /\ (i > 1 \/ url.abs) }
  IN  IF at = {} THEN 0 ELSE CHOOSE i \in at : \A k \in at : i <= k

\* new URL(url, base): url resolved against the directory of base
NewURL(url, base) ==
  IF url.abs THEN Abs(NormSegs(TRUE, url.segs, << >>))
  ELSE Abs(NormSegs(TRUE, Front(base.segs) \o url.segs, << >>))

\* canonicalize(url, context), lines 241-251; containing is
\* context.containingUrl, NoPath when there is none
canonicalize(url, containing) ==
  LET cut == IF TildeAt(url) > 0
               THEN Rel(SubSeq(url.segs, TildeAt(url), Len(url.segs)))
               ELSE url
  IN  IF ~cut.abs /\ Len(cut.segs) > 1 /\ cut.segs[1] = Tilde
        THEN Abs(<< D("node_modules") >> \o Tail(cut.segs))
        ELSE NewURL(cut, IF containing # NoPath THEN containing
                         ELSE Abs(Pathname.segs))

\* isDir(pathname)
isDir(ds, pathname) == Resolve(pathname) \in ds

\* pickFirstExisting(...files): NoPath stands for null
pickFirstExisting(files, candidates) ==
  LET there == SelectSeq(candidates, LAMBDA c : FileExists(files, c))
  IN  IF there = << >> THEN NoPath ELSE Head(there)

\* lines 253-261: the two candidates of load(canonicalUrl)
Candidates(files, ds, canonPath) ==
  << canonPath,
     IF isDir(ds, canonPath)
       THEN Join(canonPath, Rel(<< IndexScss >>))
       ELSE Join(Dirname(canonPath), Rel(<< Underscored(Last(canonPath.segs)) >>)) >>

InitLoad ==
  /\ \E fsys \in StyleFileSystems, url \in ImportUrls :
       \E from \in {NoPath} \cup
                   { Abs(SubSeq(f, Len(Cwd) + 1, Len(f))) :
                       f \in fsys.files \cap {W(<< D("src"), D("theme"), IndexScss >>)} } :
         load = [files |-> fsys.files, dirs |-> DirsOf(fsys.files) \cup fsys.dirs,
                 url |-> url, from |-> from, state |-> "asked",
                 canon |-> NoPath, result |-> NoPath]
  /\ config = DefaultConfig
  /\ fs = << >>
  /\ dirs = {}
  /\ initFs = << >>
  /\ htmlFiles = << >>
  /\ builtFiles = << >>
  /\ pc = "css"
  /\ docIdx = 1
  /\ html = << >>
  /\ rawHtml = << >>
  /\ cssImports = << Pathname >>
  /\ jsImports = << >>
  /\ currentCompile = Pathname
  /\ exitCode = -1
  /\ compileLog = << >>
  /\ refLog = << >>
  /\ loadLog = << >>
  /\ fsLog = << >>
  /\ work = << >>

\* the compiler calls canonicalize for the url of a rule
Canonicalize ==
  /\ load.state = "asked"
  /\ load' = [load EXCEPT !.state = "canonical",
                          !.canon = canonicalize(load.url, load.from)]
  /\ UNCHANGED << config, fs, dirs, htmlFiles, builtFiles, pc, docIdx, html, rawHtml,
                  cssImports, jsImports, currentCompile, exitCode, compileLog, refLog,
                  loadLog, fsLog, initFs, work >>

\* the compiler calls load for the canonical url: lines 252-269
LoadImport ==
  /\ load.state = "canonical"
  /\ LET canonPath == Rel(load.canon.segs)
         file == pickFirstExisting(load.files, Candidates(load.files, load.dirs, canonPath))
     IN  load' = IF file = NoPath
                   THEN [load EXCEPT !.state = "notfound", !.result = canonPath]
                   ELSE [load EXCEPT !.state = "found", !.result = file]
  /\ UNCHANGED << config, fs, dirs, htmlFiles, builtFiles, pc, docIdx, html, rawHtml,
                  cssImports, jsImports, currentCompile, exitCode, compileLog, refLog,
                  loadLog, fsLog, initFs, work >>

NextLoad ==
  \/ Canonicalize
  \/ LoadImport

SpecLoad == InitLoad /\ [][NextLoad]_vars

\* the path the importer was asked to load
CanonPath == Rel(load.canon.segs)

XScss == Rel(<< D("src"), F("x", "scss") >>)
XPartial == Rel(<< D("src"), Underscored(F("x", "scss")) >>)
ThemeIndex == Rel(<< D("src"), D("theme"), IndexScss >>)

\* C6 as stated: the importer takes the first existing of the resolved path
\* itself, then the _index.scss inside it when (and only when) the resolved
\* path is a directory, otherwise the sibling with '_' before the basename;
\* so an import of x in a directory holding x.scss and _x.scss resolves to
\* x.scss, an import of a directory holding _index.scss resolves to that
\* file, and when no candidate exists the load fails naming the canonical
\* path.
C6_FirstExistingCandidate ==
  load.state \in {"found", "notfound"} =>
    LET exact == FileExists(load.files, CanonPath)
        index == Join(CanonPath, Rel(<< IndexScss >>))
        partial == Join(Dirname(CanonPath),
                        Rel(<< Underscored(Last(CanonPath.segs)) >>))
        second == IF isDir(load.dirs, CanonPath) THEN index ELSE partial
    IN  /\ exact => load.state = "found" /\ load.result = CanonPath
        /\ ~exact /\ FileExists(load.files, second)
             => load.state = "found" /\ load.result = second
        /\ ~exact /\ ~FileExists(load.files, second)
             => load.state = "notfound" /\ load.result = CanonPath
        /\ ( /\ load.url = Rel(<< D("x") >>)
             /\ load.from = NoPath
             /\ FileExists(load.files, XScss)
             /\ FileExists(load.files, XPartial) )
             => load.state = "found" /\ load.result = XScss
        /\ ( /\ load.url = Rel(<< D("theme") >>)
             /\ load.from = NoPath
             /\ FileExists(load.files, ThemeIndex) )
             => load.state = "found" /\ load.result = ThemeIndex

----------------------------------------------------------------------------
(* The destination at the end of a build *)

Copies == { i \in 1..Len(fsLog) : fsLog[i].op = "copy" }

\* C11 as stated: when a build ends successfully, the file at the
\* destination path of every key of builtFiles holds the content stored
\* under that key, and the last loop copies no source file onto a path that
\* a built file was written to.
C11_BuiltFilesSurviveCopy ==
  pc = "done" =>
    /\ \A key \in Keys(builtFiles) :
         /\ Resolve(WriteDestination(key)) \in DOMAIN fs
         /\ fs[Resolve(WriteDestination(key))] = Get(builtFiles, key)
    /\ \A i \in Copies : \A j \in Writes : fsLog[i].path # fsLog[j].path

====
